---- MODULE Spec2Model ----
(***************************************************************************)
(* Model of the ActiveCampaign MCP server (src/main.py).                   *)
(*                                                                         *)
(* Python values that may be None are modelled as sequences of length at   *)
(* most one: <<>> is None and <<x>> is the value x.  A dict is a function  *)
(* from the keys it holds to such values.  Text is a TLA+ string; text is  *)
(* taken apart with Len and SubSeq and put together with \o.               *)
(***************************************************************************)
EXTENDS FiniteSets, Integers, Sequences, TLC

VARIABLES env, pc, out, op, args, net, result

vars == <<env, pc, out, op, args, net, result>>

None == <<>>

Some(x) == <<x>>

\* Python truthiness of an optional string: None and "" are falsy.
Falsy(v) == v = None \/ v = Some("")

EmptyDict == [k \in {} |-> None]

\* dict.get(key) with default None.
Get(d, k) == IF k \in DOMAIN d THEN d[k] ELSE None

-----------------------------------------------------------------------------
(* Environment *)

required_nango_vars ==
    <<"NANGO_CONNECTION_ID", "NANGO_INTEGRATION_ID",
      "NANGO_BASE_URL", "NANGO_SECRET_KEY">>

EnvNames == {required_nango_vars[i] : i \in DOMAIN required_nango_vars}

\* A variable is unset, set to the empty string, or set to a value.
EnvValue(n) == {None, Some(""), Some("v-" \o n)}

Environments == {e \in [EnvNames -> UNION {EnvValue(n) : n \in EnvNames}] :
                    \A n \in EnvNames : e[n] \in EnvValue(n)}

-----------------------------------------------------------------------------
(* The network: what the broker and the target API may answer *)

\* requests.get raised before a response arrived, the response had a
\* non-2xx status, or its body was not JSON.
BrokerFailures ==
    { [ok |-> FALSE, error |-> m] :
        m \in {"ConnectionError", "401 Client Error", "JSONDecodeError"} }

\* A broker JSON body, flattened: apiKey is credentials.apiKey and hostname
\* is connection_config.hostname; None stands for a missing key.
BrokerBodies ==
    [ apiKey : {None, Some(""), Some("k1")},
      hostname : {None, Some("h1"), Some("h2/")},
      connection_id : {Some("c1")},
      provider : {Some("active-campaign")} ]

BrokerAnswers ==
    BrokerFailures \cup { [ok |-> TRUE, body |-> b] : b \in BrokerBodies }

\* raise_for_status raises for 4xx and 5xx.
RaisesForStatus(status) == status >= 400 /\ status < 600

\* An answer of the target API: the request failed in transport, or a
\* response arrived with a status and (for 2xx) a JSON object as body.
ApiFailures ==
    { [arrived |-> FALSE, error |-> m, status |-> 0, body |-> EmptyDict] :
        m \in {"ConnectionError", "ReadTimeout"} }

ErrorStatuses == {404, 500}

Good == "value"

\* A JSON value of a type the envelope field does not accept.
Bad == "mistyped"

JsonValues == {None, Some(Good), Some(Bad)}

\* The JSON objects over the keys ks and one key no envelope declares.
Payloads(ks) ==
    { p \in UNION { [S -> JsonValues] : S \in SUBSET (ks \cup {"extra"}) } :
        "extra" \in DOMAIN p => p["extra"] = Some(Good) }

ApiAnswers(ks) ==
    ApiFailures
    \cup { [arrived |-> TRUE, error |-> "", status |-> s, body |-> EmptyDict] :
             s \in ErrorStatuses }
    \cup { [arrived |-> TRUE, error |-> "", status |-> 200, body |-> p] :
             p \in Payloads(ks) }

\* The answer put in the place of one that is never asked for.
Unasked == [ok |-> FALSE, error |-> "ConnectionError"]

UnaskedApi ==
    [arrived |-> FALSE, error |-> "ConnectionError", status |-> 0,
     body |-> EmptyDict]

-----------------------------------------------------------------------------
(* Outcome of a call: it returns a value or raises; net lists the requests *)
(* it sent, each with the answer it got.                                  *)

Return(v, sent) == [kind |-> "return", value |-> v, net |-> sent]

Raise(m, sent) == [kind |-> "raise", value |-> m, net |-> sent]

BrokerRequest(e, b) ==
    [ to |-> "broker", method |-> "GET",
      url |-> e["NANGO_BASE_URL"][1] \o "/connection/"
                \o e["NANGO_CONNECTION_ID"][1],
      headers |-> [Authorization |->
                      Some("Bearer " \o e["NANGO_SECRET_KEY"][1])],
      params |-> [provider_config_key |-> e["NANGO_INTEGRATION_ID"],
                  refresh_token |-> Some("true")],
      body |-> None, timeout |-> None, answer |-> b ]

\* Faulty variant of AllSet: tests the variables against None only, so an
\* empty string passes.
AllSet_not_none(e) == \A n \in EnvNames : e[n] # None

\* all([id, integration_id, base_url, secret_key])
AllSet(e) == \A n \in EnvNames : ~Falsy(e[n])

\* Faulty variant of get_connection_credentials: a failed request is sent a
\* second time before the error is raised.
get_connection_credentials_retry(e, b) ==
    IF \E n \in EnvNames : Falsy(e[n])
    THEN Raise("Missing required Nango environment variables", <<>>)
    ELSE IF b.ok
         THEN Return(b.body, <<BrokerRequest(e, b)>>)
         ELSE Raise(b.error, <<BrokerRequest(e, b), BrokerRequest(e, b)>>)

get_connection_credentials(e, b) ==
    IF ~AllSet(e)
    THEN Raise("Missing required Nango environment variables", <<>>)
    ELSE IF b.ok
         THEN Return(b.body, <<BrokerRequest(e, b)>>)
         ELSE Raise(b.error, <<BrokerRequest(e, b)>>)

ConfigFailed == "Failed to get ActiveCampaign config from Nango: "

\* Faulty variant of get_activecampaign_config: the test of the API key is
\* left out.
get_activecampaign_config_no_key_check(e, b) ==
    LET c == get_connection_credentials(e, b)
    IN  IF c.kind = "raise"
        THEN Raise(ConfigFailed \o c.value, c.net)
        ELSE IF Falsy(c.value.hostname)
        THEN Raise(ConfigFailed
                     \o "Hostname not found in Nango connection config",
                   c.net)
        ELSE Return([api_url |-> "https://" \o c.value.hostname[1],
                     api_key |-> IF c.value.apiKey = None THEN "None"
                                 ELSE c.value.apiKey[1]], c.net)

get_activecampaign_config(e, b) ==
    LET c == get_connection_credentials(e, b)
    IN  IF c.kind = "raise"
        THEN Raise(ConfigFailed \o c.value, c.net)
        ELSE IF Falsy(c.value.apiKey)
        THEN Raise(ConfigFailed \o "API key not found in Nango credentials",
                   c.net)
        ELSE IF Falsy(c.value.hostname)
        THEN Raise(ConfigFailed
                     \o "Hostname not found in Nango connection config",
                   c.net)
        ELSE Return([api_url |-> "https://" \o c.value.hostname[1],
                     api_key |-> c.value.apiKey[1]], c.net)

get_headers(e, b) ==
    LET c == get_activecampaign_config(e, b)
    IN  IF c.kind = "raise"
        THEN c
        ELSE Return([h \in {"Api-Token", "Content-Type", "Accept"} |->
                       IF h = "Api-Token" THEN c.value.api_key
                                          ELSE "application/json"],
                    c.net)

\* str.upper on the letters the method names are written in.
Lower == <<"a", "c", "d", "e", "g", "h", "l", "o", "p", "s", "t", "u">>

Upper == <<"A", "C", "D", "E", "G", "H", "L", "O", "P", "S", "T", "U">>

UpperChar(c) ==
    IF \E i \in DOMAIN Lower : Lower[i] = c
    THEN Upper[CHOOSE i \in DOMAIN Lower : Lower[i] = c]
    ELSE c

RECURSIVE upper(_)
upper(s) ==
    IF Len(s) = 0 THEN ""
    ELSE UpperChar(SubSeq(s, 1, 1)) \o upper(SubSeq(s, 2, Len(s)))

\* str.rstrip('/')
RECURSIVE rstrip(_)
rstrip(s) ==
    IF Len(s) > 0 /\ SubSeq(s, Len(s), Len(s)) = "/"
    THEN rstrip(SubSeq(s, 1, Len(s) - 1))
    ELSE s

ApiRequest(verb, url, headers, body, a) ==
    [ to |-> "api", method |-> verb, url |-> url, headers |-> headers,
      params |-> EmptyDict, body |-> body, timeout |-> Some(30),
      answer |-> a ]

\* The except clause of make_request: a RequestException becomes a value.
ErrorValue(message, status_code) ==
    [error |-> Some(message), status_code |-> status_code]

StatusMessage(status) ==
    ToString(status) \o (IF status < 500 THEN " Client Error"
                                         ELSE " Server Error")

\* Faulty variant of Response: raise_for_status is not called, so the body
\* of any response that arrived is returned.
Response_no_raise_for_status(a) ==
    IF ~a.arrived THEN ErrorValue(a.error, None) ELSE a.body

\* What the try block makes of the answer a to the request it sent.
Response(a) ==
    IF ~a.arrived THEN ErrorValue(a.error, None)
    ELSE IF RaisesForStatus(a.status)
    THEN ErrorValue(StatusMessage(a.status), Some(a.status))
    ELSE a.body

\* json=data is passed to requests.post and requests.put only.
HasBody(verb) == verb \in {"POST", "PUT"}

SupportedMethods == {"GET", "POST", "PUT", "DELETE"}

\* Faulty variant of make_request: a method that is not recognised is sent
\* as a GET.
make_request_default_get(e, method, endpoint, data, b1, b2, a) ==
    LET config == get_activecampaign_config(e, b1)
        headers == get_headers(e, b2)
        verb == IF upper(method) \in SupportedMethods THEN upper(method)
                ELSE "GET"
    IN  IF config.kind = "raise" THEN config
        ELSE IF headers.kind = "raise"
        THEN Raise(headers.value, config.net \o headers.net)
        ELSE Return(Response(a),
                    config.net \o headers.net \o
                    <<ApiRequest(verb,
                                 rstrip(config.value.api_url) \o endpoint,
                                 headers.value,
                                 IF HasBody(verb) THEN data ELSE None,
                                 a)>>)

make_request(e, method, endpoint, data, b1, b2, a) ==
    LET config == get_activecampaign_config(e, b1)
        headers == get_headers(e, b2)
        verb == upper(method)
    IN  IF config.kind = "raise" THEN config
        ELSE IF headers.kind = "raise"
        THEN Raise(headers.value, config.net \o headers.net)
        ELSE IF verb \notin SupportedMethods
        THEN Raise("Unsupported HTTP method: " \o method,
                   config.net \o headers.net)
        ELSE Return(Response(a),
                    config.net \o headers.net \o
                    <<ApiRequest(verb,
                                 rstrip(config.value.api_url) \o endpoint,
                                 headers.value,
                                 IF HasBody(verb) THEN data ELSE None,
                                 a)>>)

\* Which of the answers a call of make_request asks for.
AsksSecond(e, b1) == get_activecampaign_config(e, b1).kind = "return"

AsksApi(e, method, b1, b2) ==
    /\ AsksSecond(e, b1)
    /\ get_headers(e, b2).kind = "return"
    /\ upper(method) \in SupportedMethods

-----------------------------------------------------------------------------
(* Structured output models *)

ContactResponse == {"contacts", "contactList", "error"}

CampaignResponse == {"campaign", "campaigns", "meta", "error"}

ListResponse == {"list", "lists", "error"}

DealResponse == {"deal", "deals", "error"}

AccountResponse == {"accounts", "note", "error"}

TagResponse == {"tag", "tags", "error"}

MessageResponse == {"message", "messages", "error"}

UserResponse == {"user", "users", "error"}

PipelineResponse == {"pipeline", "pipelines", "error"}

FieldValueResponse == {"fieldValue", "fieldValues", "error"}

AutomationResponse == {"automation", "automations", "error"}

\* Faulty variant of Construct: a key that is no field of the model is
\* rejected instead of ignored.
Construct_forbid_extra(fields, d) ==
    IF \/ \E k \in fields \cap DOMAIN d : d[k] = Some(Bad)
       \/ ~(DOMAIN d \subseteq fields)
    THEN [kind |-> "raise", value |-> "ValidationError"]
    ELSE [kind |-> "return", value |-> [k \in fields |-> Get(d, k)]]

\* Model(**d): every declared field takes the value under its key and
\* defaults to None, keys that are not fields are ignored, and a value of
\* the wrong type fails validation.
Construct(fields, d) ==
    IF \E k \in fields \cap DOMAIN d : d[k] = Some(Bad)
    THEN [kind |-> "raise", value |-> "ValidationError"]
    ELSE [kind |-> "return", value |-> [k \in fields |-> Get(d, k)]]

-----------------------------------------------------------------------------
(* State *)

NoResult == [kind |-> "none", value |-> ""]

Ids == {"42", "7"}

Texts == {"", "Hi"}

Init ==
    /\ env \in Environments
    /\ pc = "boot"
    /\ out = <<>>
    /\ op = ""
    /\ args = EmptyDict
    /\ net = <<>>
    /\ result = NoResult

\* The answers a call of make_request may get: one it does not ask for is
\* not drawn.
FirstAnswers == IF AllSet(env) THEN BrokerAnswers ELSE {Unasked}

SecondAnswers(b1) == IF AsksSecond(env, b1) THEN BrokerAnswers ELSE {Unasked}

ThirdAnswers(method, b1, b2, ks) ==
    IF AsksApi(env, method, b1, b2) THEN ApiAnswers(ks) ELSE {UnaskedApi}

\* A tool whose body is  result = make_request(...); return Model(**result):
\* an exception of make_request leaves the tool as it is.
Tool(name, arguments, method, endpoint, data, fields) ==
    /\ pc = "serving"
    /\ \E b1 \in FirstAnswers :
       \E b2 \in SecondAnswers(b1) :
       \E a \in ThirdAnswers(method, b1, b2, fields) :
          LET r == make_request(env, method, endpoint, data, b1, b2, a)
          IN  /\ net' = r.net
              /\ result' = IF r.kind = "raise"
                           THEN [kind |-> "raise", value |-> r.value]
                           ELSE Construct(fields, r.value)
    /\ op' = name
    /\ args' = arguments
    /\ pc' = "replied"
    /\ UNCHANGED <<env, out>>

-----------------------------------------------------------------------------
(* Tools *)

update_list_status_for_contact ==
    \E contact_id \in Ids, list_id \in Ids, status \in {1, 2} :
        Tool("update_list_status_for_contact",
             [contact_id |-> Some(contact_id), list_id |-> Some(list_id),
              status |-> Some(status)],
             "POST", "/api/3/contacts/" \o contact_id \o "/contactLists",
             Some([contactList |-> [list |-> Some(list_id),
                                    contact |-> Some(contact_id),
                                    status |-> Some(status)]]),
             ContactResponse)

get_custom_field_contact ==
    \E field_id \in Ids :
        Tool("get_custom_field_contact", [field_id |-> Some(field_id)], "GET",
             "/api/3/fields/" \o field_id, None, FieldValueResponse)

list_custom_field_values ==
    \E field_id \in Ids :
        Tool("list_custom_field_values", [field_id |-> Some(field_id)], "GET",
             "/api/3/fieldValues", None, FieldValueResponse)

get_list ==
    \E list_id \in Ids :
        Tool("get_list", [list_id |-> Some(list_id)], "GET",
             "/api/3/lists/" \o list_id, None, ListResponse)

list_campaigns ==
    Tool("list_campaigns", EmptyDict, "GET", "/api/3/campaigns", None, CampaignResponse)

list_automations ==
    Tool("list_automations", EmptyDict, "GET", "/api/3/automations", None, AutomationResponse)

list_users ==
    Tool("list_users", EmptyDict, "GET", "/api/3/users", None, UserResponse)

list_pipelines ==
    Tool("list_pipelines", EmptyDict, "GET", "/api/3/dealGroups", None, PipelineResponse)

list_messages ==
    Tool("list_messages", EmptyDict, "GET", "/api/3/messages", None, MessageResponse)

get_deal ==
    \E deal_id \in Ids :
        Tool("get_deal", [deal_id |-> Some(deal_id)], "GET",
             "/api/3/deals/" \o deal_id, None, DealResponse)

list_deals ==
    Tool("list_deals", EmptyDict, "GET", "/api/3/deals", None, DealResponse)

create_an_account_note ==
    \E account_id \in Ids, note_text \in Texts :
        Tool("create_an_account_note",
             [account_id |-> Some(account_id), note_text |-> Some(note_text)],
             "POST", "/api/3/notes",
             Some([note |-> [note |-> Some(note_text),
                             relid |-> Some(account_id),
                             reltype |-> Some("account")]]),
             AccountResponse)

get_tag ==
    \E tag_id \in Ids :
        Tool("get_tag", [tag_id |-> Some(tag_id)], "GET",
             "/api/3/tags/" \o tag_id, None, TagResponse)

get_campaign ==
    \E campaign_id \in Ids :
        Tool("get_campaign", [campaign_id |-> Some(campaign_id)], "GET",
             "/api/3/campaigns/" \o campaign_id, None, CampaignResponse)

get_pipeline ==
    \E pipeline_id \in Ids :
        Tool("get_pipeline", [pipeline_id |-> Some(pipeline_id)], "GET",
             "/api/3/dealGroups/" \o pipeline_id, None, PipelineResponse)

\* Faulty variant of SetIfGiven: the test is  if v:  so an empty string is
\* left out like None.
SetIfGiven_truthy(message, k, v) ==
    IF ~Falsy(v)
    THEN [j \in DOMAIN message \cup {k} |-> IF j = k THEN v ELSE message[j]]
    ELSE message

\* if v is not None: data["message"][k] = v
SetIfGiven(message, k, v) ==
    IF v # None
    THEN [j \in DOMAIN message \cup {k} |-> IF j = k THEN v ELSE message[j]]
    ELSE message

MessageBody(name, subject, fromname, fromemail) ==
    SetIfGiven(SetIfGiven(SetIfGiven(SetIfGiven(EmptyDict,
        "name", name), "subject", subject), "fromname", fromname),
        "fromemail", fromemail)

OptionalTexts == {None} \cup {Some(t) : t \in Texts}

update_message ==
    \E message_id \in Ids, name \in OptionalTexts, subject \in OptionalTexts,
       fromname \in OptionalTexts, fromemail \in OptionalTexts :
        Tool("update_message",
             [message_id |-> Some(message_id), name |-> name,
              subject |-> subject, fromname |-> fromname,
              fromemail |-> fromemail],
             "PUT", "/api/3/messages/" \o message_id,
             Some([message |->
                     MessageBody(name, subject, fromname, fromemail)]),
             MessageResponse)

get_message ==
    \E message_id \in Ids :
        Tool("get_message", [message_id |-> Some(message_id)], "GET",
             "/api/3/messages/" \o message_id, None, MessageResponse)

\* The status dictionary of the except clause of a diagnostic tool.
ErrorStatus(message) ==
    [status |-> Some("error"), message |-> message]

HealthOk(credentials) ==
    [status |-> Some("ok"),
     message |-> Some("API connection successful via Nango"),
     connection_id |-> credentials.connection_id,
     hostname |-> credentials.hostname,
     provider |-> credentials.provider]

\* Faulty variant of health_check_body: the result of make_request is not
\* looked at.
health_check_body_ignores_error(e, b0, b1, b2, a) ==
    LET credentials == get_connection_credentials(e, b0)
        r == make_request(e, "GET", "/api/3/users", None, b1, b2, a)
    IN  IF credentials.kind = "raise"
        THEN Return(ErrorStatus(Some(credentials.value)), credentials.net)
        ELSE IF r.kind = "raise"
        THEN Return(ErrorStatus(Some(r.value)), credentials.net \o r.net)
        ELSE Return(HealthOk(credentials.value), credentials.net \o r.net)

health_check_body(e, b0, b1, b2, a) ==
    LET credentials == get_connection_credentials(e, b0)
        r == make_request(e, "GET", "/api/3/users", None, b1, b2, a)
    IN  IF credentials.kind = "raise"
        THEN Return(ErrorStatus(Some(credentials.value)), credentials.net)
        ELSE IF r.kind = "raise"
        THEN Return(ErrorStatus(Some(r.value)), credentials.net \o r.net)
        ELSE IF "error" \in DOMAIN r.value
        THEN Return(ErrorStatus(r.value["error"]), credentials.net \o r.net)
        ELSE Return(HealthOk(credentials.value), credentials.net \o r.net)

health_check ==
    /\ pc = "serving"
    /\ \E b0 \in FirstAnswers :
       \E b1 \in IF b0.ok THEN BrokerAnswers ELSE {Unasked} :
       \E b2 \in SecondAnswers(b1) :
       \E a \in ThirdAnswers("GET", b1, b2, UserResponse) :
          LET r == health_check_body(env, b0, b1, b2, a)
          IN  /\ net' = r.net
              /\ result' = [kind |-> r.kind, value |-> r.value]
    /\ op' = "health_check"
    /\ args' = EmptyDict
    /\ pc' = "replied"
    /\ UNCHANGED <<env, out>>

ConnectionInfo(credentials) ==
    [status |-> Some("success"),
     connection_id |-> credentials.connection_id,
     provider |-> credentials.provider,
     hostname |-> credentials.hostname,
     has_api_key |-> Some(~Falsy(credentials.apiKey))]

get_nango_connection_info ==
    /\ pc = "serving"
    /\ \E b \in FirstAnswers :
          LET credentials == get_connection_credentials(env, b)
          IN  /\ net' = credentials.net
              /\ result' =
                   [kind |-> "return",
                    value |-> IF credentials.kind = "raise"
                              THEN ErrorStatus(Some(credentials.value))
                              ELSE ConnectionInfo(credentials.value)]
    /\ op' = "get_nango_connection_info"
    /\ args' = EmptyDict
    /\ pc' = "replied"
    /\ UNCHANGED <<env, out>>

\* A call of make_request by itself, with any method string.
Methods == {"GET", "get", "Post", "put", "DELETE", "delete", "PATCH",
            "head", ""}

call_make_request ==
    /\ pc = "serving"
    /\ \E method \in Methods, data \in {None, Some([deal |-> Some(Good)])} :
       \E b1 \in FirstAnswers :
       \E b2 \in SecondAnswers(b1) :
       \E a \in ThirdAnswers(method, b1, b2, {"error"}) :
          LET r == make_request(env, method, "/api/3/deals", data, b1, b2, a)
          IN  /\ net' = r.net
              /\ result' = [kind |-> r.kind, value |-> r.value]
              /\ args' = [method |-> Some(method), data |-> data]
    /\ op' = "make_request"
    /\ pc' = "replied"
    /\ UNCHANGED <<env, out>>

-----------------------------------------------------------------------------
(* Process entry *)

\* ', '.join(names)
RECURSIVE join(_)
join(names) ==
    IF Len(names) = 0 THEN ""
    ELSE IF Len(names) = 1 THEN names[1]
    ELSE names[1] \o ", " \o join(Tail(names))

\* [var for var in required_nango_vars if not os.getenv(var)]
missing_vars(e) == SelectSeq(required_nango_vars, LAMBDA n : Falsy(e[n]))

Warning(e) ==
    IF missing_vars(e) # <<>>
    THEN <<"Warning: Missing Nango environment variables: "
             \o join(missing_vars(e))>>
    ELSE <<>>

\* Faulty variant of startup: get_activecampaign_config is called also after
\* get_connection_credentials has failed.
startup_separate_try(e, b0, b1) ==
    LET credentials == get_connection_credentials(e, b0)
        config == get_activecampaign_config(e, b1)
    IN  IF credentials.kind = "raise" \/ config.kind = "raise"
        THEN Return(<<"Failed to connect to Nango: "
                        \o (IF credentials.kind = "raise"
                            THEN credentials.value ELSE config.value)>>,
                    credentials.net \o config.net)
        ELSE Return(<<"Successfully connected to Nango",
                      "API URL: " \o config.value.api_url>>,
                    credentials.net \o config.net)

\* The startup test: both calls are inside one try block.
startup(e, b0, b1) ==
    LET credentials == get_connection_credentials(e, b0)
        config == get_activecampaign_config(e, b1)
    IN  IF credentials.kind = "raise"
        THEN Return(<<"Failed to connect to Nango: " \o credentials.value>>,
                    credentials.net)
        ELSE IF config.kind = "raise"
        THEN Return(<<"Failed to connect to Nango: " \o config.value>>,
                    credentials.net \o config.net)
        ELSE Return(<<"Successfully connected to Nango",
                      "API URL: " \o config.value.api_url>>,
                    credentials.net \o config.net)

run ==
    /\ pc = "boot"
    /\ \E b0 \in FirstAnswers :
       \E b1 \in IF b0.ok THEN BrokerAnswers ELSE {Unasked} :
          LET r == startup(env, b0, b1)
          IN  /\ net' = r.net
              /\ out' = Warning(env) \o r.value
    /\ op' = "run"
    /\ args' = EmptyDict
    /\ result' = NoResult
    /\ pc' = "replied"
    /\ UNCHANGED env

\* mcp.run: the reply is sent and the server waits for the next call.  No
\* tool keeps anything of a call; net, out and result describe one call.
serve ==
    /\ pc = "replied"
    /\ pc' = "serving"
    /\ op' = ""
    /\ args' = EmptyDict
    /\ net' = <<>>
    /\ out' = <<>>
    /\ result' = NoResult
    /\ UNCHANGED env

Next ==
    \/ run
    \/ serve
    \/ update_list_status_for_contact
    \/ get_custom_field_contact
    \/ list_custom_field_values
    \/ get_list
    \/ list_campaigns
    \/ list_automations
    \/ list_users
    \/ list_pipelines
    \/ list_messages
    \/ get_deal
    \/ list_deals
    \/ create_an_account_note
    \/ get_tag
    \/ get_campaign
    \/ get_pipeline
    \/ update_message
    \/ get_message
    \/ health_check
    \/ get_nango_connection_info
    \/ call_make_request

Spec == Init /\ [][Next]_vars

-----------------------------------------------------------------------------
(* Vocabulary of the properties *)

FieldsOf ==
    [ update_list_status_for_contact |-> ContactResponse,
      get_custom_field_contact |-> FieldValueResponse,
      list_custom_field_values |-> FieldValueResponse,
      get_list |-> ListResponse,
      list_campaigns |-> CampaignResponse,
      list_automations |-> AutomationResponse,
      list_users |-> UserResponse,
      list_pipelines |-> PipelineResponse,
      list_messages |-> MessageResponse,
      get_deal |-> DealResponse,
      list_deals |-> DealResponse,
      create_an_account_note |-> AccountResponse,
      get_tag |-> TagResponse,
      get_campaign |-> CampaignResponse,
      get_pipeline |-> PipelineResponse,
      update_message |-> MessageResponse,
      get_message |-> MessageResponse ]

EnvelopeTools == DOMAIN FieldsOf

DiagnosticTools == {"health_check", "get_nango_connection_info"}

RegisteredTools == EnvelopeTools \cup DiagnosticTools

\* A call of the operation o has run and its reply is pending.
Ran(o) == pc = "replied" /\ op = o

RanTool == pc = "replied" /\ op \in RegisteredTools

RanEnvelopeTool == pc = "replied" /\ op \in EnvelopeTools

BrokerCalls == {i \in DOMAIN net : net[i].to = "broker"}

ApiCalls == {i \in DOMAIN net : net[i].to = "api"}

SomeUnset == \E n \in EnvNames : env[n] = None \/ env[n] = Some("")

\* The broker answered request i with a body holding both apiKey and hostname.
Yielded(i) ==
    /\ net[i].to = "broker"
    /\ net[i].answer.ok
    /\ net[i].answer.body.apiKey \notin {None, Some("")}
    /\ net[i].answer.body.hostname \notin {None, Some("")}

\* Request i failed: nothing arrived, or the status was not 2xx.
Failed(i) ==
    IF net[i].to = "broker" THEN ~net[i].answer.ok
    ELSE ~net[i].answer.arrived \/ net[i].answer.status \notin 200..299

SetFields(envelope) == {k \in DOMAIN envelope : envelope[k] # None}

-----------------------------------------------------------------------------
(* Properties *)

\* The method strings of Methods that are none of GET, POST, PUT and DELETE
\* in any capitalisation.
UnsupportedMethods == {"PATCH", "head", ""}

CalledUnsupported ==
    Ran("make_request") /\ args["method"][1] \in UnsupportedMethods

\* C1, as stated: a call of make_request with a method that is none of
\* GET/POST/PUT/DELETE fails with 'Unsupported HTTP method' and has made no
\* network call of any kind, neither to the broker nor to the target API.
C1_NoNetworkCall ==
    CalledUnsupported =>
        /\ result.kind = "raise"
        /\ result.value = "Unsupported HTTP method: " \o args["method"][1]
        /\ net = <<>>

\* C1, amended: a call of make_request with a method that is none of
\* GET/POST/PUT/DELETE raises and sends nothing to the target API; it
\* resolves the credentials first, so the broker has been asked up to two
\* times, and the error is 'Unsupported HTTP method' exactly when both
\* resolutions yielded apiKey and hostname.
C1_NoApiCall ==
    CalledUnsupported =>
        /\ result.kind = "raise"
        /\ ApiCalls = {}
        /\ Len(net) <= 2
        /\ (result.value = "Unsupported HTTP method: " \o args["method"][1])
             <=> (Len(net) = 2 /\ Yielded(1) /\ Yielded(2))

C1_Witness ==
    /\ Ran("make_request")
    /\ args["method"] = Some("PATCH")
    /\ result = [kind |-> "raise", value |-> "Unsupported HTTP method: PATCH"]
    /\ Len(net) = 2

\* C2, as stated: a tool invocation performs at most two round trips, at
\* most one to the broker followed by at most one to the target API.
C2_AtMostTwoRoundTrips ==
    RanTool =>
        /\ Len(net) <= 2
        /\ Cardinality(BrokerCalls) <= 1
        /\ Cardinality(ApiCalls) <= 1

\* The credential resolutions of one invocation: make_request resolves once
\* for the URL and once more for the headers, health_check once before that.
MaxBrokerCalls(o) ==
    IF o = "health_check" THEN 3
    ELSE IF o = "get_nango_connection_info" THEN 1
    ELSE 2

\* C2, amended: a tool invocation sends at most two requests to the broker
\* (three in health_check, one in get_nango_connection_info) and after them
\* at most one request to the target API; a request that failed is the last
\* one of the invocation, so nothing is retried.
C2_BoundedRoundTrips ==
    RanTool =>
        /\ Cardinality(BrokerCalls) <= MaxBrokerCalls(op)
        /\ Cardinality(ApiCalls) <= 1
        /\ \A i \in ApiCalls : i = Len(net)
        /\ \A i \in DOMAIN net : Failed(i) => i = Len(net)

C2_Witness ==
    /\ Ran("list_deals")
    /\ Cardinality(BrokerCalls) = 2
    /\ ApiCalls = {3}
    /\ ~Failed(3)

\* The target API answered the request of this call with a non-2xx status.
ApiRefused ==
    /\ ApiCalls # {}
    /\ net[Len(net)].answer.arrived
    /\ net[Len(net)].answer.status \in ErrorStatuses

RefusalMessage ==
    IF net[Len(net)].answer.status = 404 THEN "404 Client Error"
                                         ELSE "500 Server Error"

ResolutionFailed ==
    \/ SomeUnset
    \/ \E i \in BrokerCalls : ~net[i].answer.ok
    \/ \E i \in BrokerCalls :
          /\ ~Yielded(i)
          /\ ~(op = "health_check" /\ i = 1)
          /\ op # "get_nango_connection_info"

\* C4: in every registered tool a failure of credential resolution is caught
\* at the tool boundary and the tool returns an ordinary value describing the
\* error; nothing is raised to the caller.
C4_NoFaultLeavesTool ==
    RanTool /\ ResolutionFailed => result.kind = "return"

\* C5: a broker answer without apiKey (or hostname) makes
\* get_activecampaign_config fail with a credential error, and a request is
\* sent to the target API only after credential resolutions that yielded
\* both apiKey and hostname; where one did not, the target API is not called.
C5_ApiOnlyAfterCredentials ==
    pc = "replied" =>
        /\ \A i \in ApiCalls : i >= 3 /\ Yielded(i - 1) /\ Yielded(i - 2)
        /\ \A i \in BrokerCalls :
              (/\ op \in EnvelopeTools \cup {"make_request"}
               /\ net[i].answer.ok
               /\ net[i].answer.body.apiKey \in {None, Some("")})
              => /\ ApiCalls = {}
                 /\ i = Len(net)
                 /\ result.kind = "raise"
                 /\ result.value = "Failed to get ActiveCampaign config from Nango: API key not found in Nango credentials"
        /\ \A i \in BrokerCalls :
              (/\ op \in EnvelopeTools \cup {"make_request"}
               /\ net[i].answer.ok
               /\ net[i].answer.body.apiKey \notin {None, Some("")}
               /\ net[i].answer.body.hostname = None)
              => /\ ApiCalls = {}
                 /\ i = Len(net)
                 /\ result.kind = "raise"
                 /\ result.value = "Failed to get ActiveCampaign config from Nango: Hostname not found in Nango connection config"

C5_Witness ==
    /\ Ran("get_deal")
    /\ Len(net) = 2
    /\ Yielded(1)
    /\ net[2].answer.ok
    /\ net[2].answer.body.apiKey = None
    /\ result.kind = "raise"

\* What each operation reports when the required variables are not all set.
MissingReported ==
    IF op \in EnvelopeTools \cup {"make_request"}
    THEN result = [kind |-> "raise",
                   value |-> "Failed to get ActiveCampaign config from Nango: Missing required Nango environment variables"]
    ELSE IF op \in DiagnosticTools
    THEN result = [kind |-> "return",
                   value |-> [status |-> Some("error"),
                              message |-> Some("Missing required Nango environment variables")]]
    ELSE out[Len(out)] = "Failed to connect to Nango: Missing required Nango environment variables"

\* C6: when one of the four required variables is absent or empty,
\* credential resolution fails with a configuration error before any network
\* call: neither the broker nor the target API is sent a request.
C6_MissingVariableNoNetwork ==
    pc = "replied" /\ SomeUnset => net = <<>> /\ MissingReported

C6_Witness ==
    /\ Ran("get_deal")
    /\ env["NANGO_SECRET_KEY"] = Some("")
    /\ \A n \in EnvNames \ {"NANGO_SECRET_KEY"} : env[n] = Some("v-" \o n)
    /\ net = <<>>
    /\ result.kind = "raise"

MessageKeys == {"name", "subject", "fromname", "fromemail"}

\* C7: update_message sends a PUT to /api/3/messages/{message_id} whose body
\* is {message: M}, where M holds exactly the keys among name, subject,
\* fromname and fromemail whose argument is not None, each with the value
\* given; an omitted parameter is not in the body, neither as null nor
\* otherwise.
C7_PartialUpdateBody ==
    Ran("update_message") =>
        \A i \in ApiCalls :
            /\ net[i].method = "PUT"
            /\ \E host \in {"h1", "h2"} :
                  net[i].url = "https://" \o host \o "/api/3/messages/"
                                 \o args["message_id"][1]
            /\ Len(net[i].body) = 1
            /\ DOMAIN net[i].body[1] = {"message"}
            /\ LET M == net[i].body[1]["message"]
               IN  /\ DOMAIN M = {k \in MessageKeys : args[k] # None}
                   /\ \A k \in DOMAIN M : M[k] = args[k] /\ M[k] # None

\* update_message("42", subject="Hi") sends {"message": {"subject": "Hi"}}.
C7_Witness ==
    /\ Ran("update_message")
    /\ args = [message_id |-> Some("42"), name |-> None,
               subject |-> Some("Hi"), fromname |-> None, fromemail |-> None]
    /\ ApiCalls = {3}
    /\ net[3].body = Some([message |-> [subject |-> Some("Hi")]])

\* The target API answered the request of health_check with a 2xx response
\* whose body has no error key.
HealthApiSucceeded ==
    /\ Len(net) = 4
    /\ net[4].to = "api"
    /\ net[4].method = "GET"
    /\ \E host \in {"h1", "h2"} :
          net[4].url = "https://" \o host \o "/api/3/users"
    /\ net[4].answer.arrived
    /\ net[4].answer.status = 200
    /\ "error" \notin DOMAIN net[4].answer.body

HealthBrokerSucceeded ==
    /\ Len(net) >= 3
    /\ net[1].to = "broker" /\ net[1].answer.ok
    /\ Yielded(2)
    /\ Yielded(3)

\* C8: health_check returns status "ok", with the hostname and connection id
\* of the broker's answer, exactly when the broker lookups and the call
\* GET /api/3/users succeed; when the call returns an error value it returns
\* {status: "error", message: that error}; and it always returns a status
\* dictionary and never raises.
C8_HealthCheck ==
    Ran("health_check") =>
        /\ result.kind = "return"
        /\ result.value["status"] \in {Some("ok"), Some("error")}
        /\ (result.value["status"] = Some("ok"))
             <=> (HealthBrokerSucceeded /\ HealthApiSucceeded)
        /\ result.value["status"] = Some("ok") =>
             /\ result.value["hostname"] = net[1].answer.body.hostname
             /\ result.value["connection_id"]
                  = net[1].answer.body.connection_id
        /\ result.value["status"] = Some("error") =>
             DOMAIN result.value = {"status", "message"}
        /\ (Len(net) = 4 /\ ~net[4].answer.arrived) =>
             result.value["message"] = Some(net[4].answer.error)
        /\ (Len(net) = 4 /\ net[4].answer.arrived
              /\ net[4].answer.status = 404) =>
             result.value["message"] = Some("404 Client Error")
        /\ (Len(net) = 4 /\ net[4].answer.arrived
              /\ net[4].answer.status = 200
              /\ "error" \in DOMAIN net[4].answer.body) =>
             result.value["message"] = net[4].answer.body["error"]

C8_Witness ==
    /\ Ran("health_check")
    /\ HealthBrokerSucceeded
    /\ HealthApiSucceeded
    /\ net[1].answer.body.hostname = Some("h2/")
    /\ net[2].answer.body.hostname = Some("h1")
    /\ result.value["status"] = Some("ok")
    /\ result.value["hostname"] = Some("h2/")

StartsWith(line, prefix) ==
    Len(line) >= Len(prefix) /\ SubSeq(line, 1, Len(prefix)) = prefix

Reports(prefix) == \E i \in DOMAIN out : StartsWith(out[i], prefix)

\* C9, as stated: startup never aborts, attempts exactly one credential
\* resolution, a single broker request, reports its success or failure and
\* then enters the tool-serving loop.
C9_OneBrokerRequest ==
    /\ pc = "boot" => ENABLED run
    /\ Ran("run") =>
         /\ Cardinality(BrokerCalls) = 1
         /\ Reports("Successfully connected") \/ Reports("Failed to connect")
         /\ ENABLED serve

\* C9, amended: startup never aborts; it prints a warning exactly when a
\* required variable is missing, makes one credential check that sends at
\* most two requests to the broker (none when a variable is missing, one
\* when the first request fails, two otherwise) and none to the target API,
\* reports either its success or its failure, and then enters the
\* tool-serving loop.
C9_Startup ==
    /\ pc = "boot" => ENABLED run
    /\ Ran("run") =>
         /\ ApiCalls = {}
         /\ Cardinality(BrokerCalls) <= 2
         /\ SomeUnset <=> net = <<>>
         /\ SomeUnset <=> Reports("Warning: Missing Nango environment variables: ")
         /\ (net # <<>> /\ ~net[1].answer.ok) => Len(net) = 1
         /\ (net # <<>> /\ net[1].answer.ok) => Len(net) = 2
         /\ Reports("Successfully connected to Nango")
              <=> (Len(net) = 2 /\ net[1].answer.ok /\ Yielded(2))
         /\ Reports("Failed to connect to Nango: ")
              <=> ~Reports("Successfully connected to Nango")
         /\ ENABLED serve

C9_Witness ==
    /\ Ran("run")
    /\ Len(net) = 2
    /\ Yielded(2)
    /\ out = <<"Successfully connected to Nango", "API URL: https://h1">>

\* C10, as stated: the envelope a tool builds from a JSON object the
\* executor returns has exactly one of its item field, its list field and
\* its error field set.
C10_ExactlyOneField ==
    (RanEnvelopeTool /\ result.kind = "return") =>
        Cardinality(SetFields(result.value) \ {"meta"}) = 1

\* C10, amended: the envelope a tool builds from a JSON object the executor
\* returns has each declared field set exactly when the object holds a
\* non-null value under that key: an error value sets the error field alone,
\* a 2xx payload sets none, one or several of the fields, and a payload
\* with a value of the wrong type under a declared key raises a validation
\* error instead.
C10_FieldsFollowKeys ==
    (RanEnvelopeTool /\ ApiCalls # {}) =>
        LET body == net[Len(net)].answer.body
            declared == FieldsOf[op]
        IN  IF Failed(Len(net))
            THEN result.kind = "return"
                 /\ SetFields(result.value) = {"error"}
            ELSE IF \E k \in declared \cap DOMAIN body : body[k] = Some(Bad)
            THEN result = [kind |-> "raise", value |-> "ValidationError"]
            ELSE /\ result.kind = "return"
                 /\ DOMAIN result.value = declared
                 /\ \A k \in declared :
                       result.value[k] =
                           IF k \in DOMAIN body THEN body[k] ELSE None

C10_Witness ==
    /\ Ran("get_custom_field_contact")
    /\ ApiCalls = {3}
    /\ ~Failed(3)
    /\ DOMAIN net[3].answer.body = {"extra"}
    /\ result.kind = "return"
    /\ SetFields(result.value) = {}

====
